---- MODULE Spec2Model ----
(***************************************************************************)
(* Message delivery reliability engine of woosh-lifts: idempotent          *)
(* ingestion (ingestMessage), the retry worker (processOne, runForever),   *)
(* the send routes (sendTextMessage, sendTemplateMessage) and the circuit  *)
(* breaker (isRequestAllowed, recordAttempt), all coordinating through one *)
(* PostgreSQL store (READ COMMITTED, the server default).                  *)
(***************************************************************************)
EXTENDS Integers, Sequences, FiniteSets, TLC

\* ------------------------------------------------------------------ bounds
NumIngestors == 2
MaxIngestCalls == 3
NumWorkers == 2
NumHandlers == 1
MaxSends == 1
\* sends accepted where the order of queued rows matters
MaxQueued == 2
MaxRestarts == 2
MaxTime == 60
\* seconds that pass in one step of the clock
TickSecs == 60
\* concurrent callers of the breaker module
NumCallers == 2
NumDeliveries == 2
MaxAttemptNumber == 12
\* the clock of the breaker runs: seconds per step and last instant
ElapseSecs == 30
MaxClock == 120
\* store errors are explored while the stored failure count is below this
MaxFailureCount == 9

Ingestors == 1 .. NumIngestors
Workers == 1 .. NumWorkers
Handlers == 1 .. NumHandlers
Callers == 1 .. NumCallers
Deliveries == 1 .. NumDeliveries
\* SQL NULL in a timestamp column
NULL == -1

\* ------------------------------------------------------- program constants
\* RETRY_MAX_ATTEMPTS default
maxAttempts == 4
\* successes needed to close from half-open
successThreshold == 3
\* BREAKER_HALF_OPEN_AFTER default, seconds
halfOpenAfter == 60

\* ------------------------------------------------------------------ inputs
Providers == {"twilio", "generic"}
ProviderIds == {"SM1"}
\* normalized inbound messages: every adapter of normalize.js sets
\* provider, provider_id, msisdn, text, ts and meta.original
InboundMsgs == [provider : Providers, provider_id : ProviderIds,
                msisdn : {"+27824537125"}, text : {"help"}]
\* a field an arbitrary caller of ingestMessage can pass: a value, the empty
\* string, or nothing (undefined, sent to the store as NULL)
FieldDefects == {"", "undefined"}
\* messages of an arbitrary caller: well formed, or with one required field
\* empty or missing
RawMsgs ==
  [provider : {"generic"}, provider_id : ProviderIds,
   msisdn : {"+27824537125"}, text : {"help"}]
  \cup [provider : {"generic"}, provider_id : FieldDefects,
        msisdn : {"+27824537125"}, text : {"help"}]
  \cup [provider : {"generic"}, provider_id : ProviderIds,
        msisdn : FieldDefects, text : {"help"}]
  \cup [provider : {"generic"}, provider_id : ProviderIds,
        msisdn : {"+27824537125"}, text : FieldDefects]
\* what the bridge can answer: an HTTP status (0: the request failed on the
\* network or timed out) and whether the JSON body carries ok: true
Responses ==
  {[status |-> 200, bodyOk |-> TRUE], [status |-> 200, bodyOk |-> FALSE],
   [status |-> 400, bodyOk |-> FALSE], [status |-> 408, bodyOk |-> FALSE],
   [status |-> 429, bodyOk |-> FALSE], [status |-> 500, bodyOk |-> FALSE],
   [status |-> 0, bodyOk |-> FALSE]}
NoResponse == [status |-> -1, bodyOk |-> FALSE]
\* req.body.to of a send request: absent, present but not a phone number,
\* or a phone number
ToValues == {"missing", "invalid", "valid"}
\* the environment a deployment can set: DLQ_ENABLED absent, 'true' or 'false'
Environments == [DLQ_ENABLED : {"unset", "true", "false"},
                 BREAKER_FAIL_THRESHOLD : {"unset"}]
\* the environment of the rollback plan: BREAKER_FAIL_THRESHOLD=0
RollbackEnvironments == [DLQ_ENABLED : {"unset"},
                         BREAKER_FAIL_THRESHOLD : {"0"}]

VARIABLES
  messages,   \* committed rows of table messages, by id
  events,     \* committed rows of table events, in insertion order
  nextId,     \* next generated primary key
  ing,        \* per ingestor: position inside ingestMessage and its txn
  returns,    \* history: completed ingestMessage calls
  stamp,      \* history: logical time of call starts and returns
  started,    \* history: number of ingestMessage calls started
  wa_attempts,\* committed rows of table wa_attempts
  breaker,    \* the breaker_state row of service wa_bridge
  now,        \* the store clock, in seconds
  wk,         \* per worker process: position inside runForever/processOne
  rt,         \* per send-route request handler: position inside the handler
  sends,      \* number of send-route requests accepted so far
  restarts,   \* number of server processes started after the first ones
  bk,         \* per breaker caller: position inside isRequestAllowed/recordAttempt
  streak,     \* history: recordAttempt(false) calls completed since the last
              \* completed recordAttempt(true), counted up to failThreshold
  env,        \* process.env of the server process
  calc,       \* the backoff calculation last made and what it was given
  snd         \* per Pub/Sub delivery slot of the sender: position in its handler

vars == <<messages, events, nextId, ing, returns, stamp, started,
          wa_attempts, breaker, now, wk, rt, sends, restarts, bk, streak, env, calc, snd>>

ingestVars == <<ing, returns, stamp, started>>
deliveryVars == <<wa_attempts, breaker, now, wk, rt, sends, restarts, bk,
                  streak, env, calc, snd>>

\* no backoff has been calculated yet
NoCalculation == [fn |-> "none", a1 |-> 0, a2 |-> 0, d1 |-> 0, d2 |-> 0]

\* the sender holds no delivery in this slot
IdleDelivery == [pc |-> "idle",
                 data |-> [parses |-> FALSE, to |-> <<>>, text |-> <<>>],
                 attempt |-> 0, calls |-> 0,
                 succeeded |-> FALSE, acks |-> 0, nacks |-> 0]

\* breaker_state has no row for wa_bridge until the first upsert
NoBreakerRow == [present |-> FALSE, state |-> "closed", failure_count |-> 0,
                 success_count |-> 0, opened_at |-> NULL]

IdleWorker == [pc |-> "idle", id |-> 0, code |-> 0, peers |-> {}]

IdleHandler == [pc |-> "idle", id |-> 0, attempt |-> 0, resp |-> NoResponse,
                http |-> 0]

\* a caller of the breaker module outside any call
IdleCaller == [pc |-> "idle", op |-> "none", success |-> FALSE,
               cur |-> "closed", wstate |-> "closed", wfail |-> 0,
               wsucc |-> 0, ret |-> "none"]

\* handleProviderMessage: no response sent
NoReply == [status |-> 0, error |-> "", field |-> ""]

IdleIngestor == [pc |-> "idle",
                 msg |-> [provider |-> "", provider_id |-> "", msisdn |-> "",
                          text |-> ""],
                 pending |-> 0, startedAt |-> 0,
                 via |-> "direct", reply |-> NoReply]

\* parseInt of the strings the environment holds
parseInt(s) == CASE s = "0" -> 0 [] s = "8" -> 8

\* parseInt(process.env.BREAKER_FAIL_THRESHOLD || '8')
failThreshold ==
  parseInt(IF env.BREAKER_FAIL_THRESHOLD = "unset" THEN "8"
           ELSE env.BREAKER_FAIL_THRESHOLD)

\* ------------------------------------------------------------------- Init
\* the state after construction, in a deployment whose environment is in E
Boot(E) ==
  /\ messages = << >>
  /\ events = << >>
  /\ nextId = 1
  /\ ing = [p \in Ingestors |-> IdleIngestor]
  /\ returns = << >>
  /\ stamp = 0
  /\ started = 0
  /\ wa_attempts = << >>
  /\ breaker = NoBreakerRow
  /\ now = 0
  /\ wk = [w \in Workers |-> IdleWorker]
  /\ rt = [r \in Handlers |-> IdleHandler]
  /\ sends = 0
  /\ restarts = 0
  /\ bk = [c \in Callers |-> IdleCaller]
  /\ streak = 0
  /\ env \in E
  /\ calc = NoCalculation
  /\ snd = [d \in Deliveries |-> IdleDelivery]

Init == Boot(Environments)

\* the deployment after the rollback step "Disable breaker"
InitRollback == Boot(RollbackEnvironments)

\* ============================================================ ingestMessage
\* a lookup that matches provider_id alone
ExistingRowsAnyProvider(m) ==
  {id \in DOMAIN messages : messages[id].provider_id = m.provider_id}

\* SELECT id FROM messages WHERE provider = $1 AND provider_id = $2
\* (committed rows; a READ COMMITTED statement sees every committed row)
ExistingRows(m) ==
  {id \in DOMAIN messages :
     /\ messages[id].provider = m.provider
     /\ messages[id].provider_id = m.provider_id}

\* a table without the unique index: no INSERT ever waits
NoUniqueIndex(p, m) == FALSE

\* the unique index idx_messages_provider_idempotency: an uncommitted row of
\* another transaction with the same (provider, provider_id) makes the
\* INSERT wait until that transaction ends
BlockedByUncommitted(p, m) ==
  \E q \in Ingestors \ {p} :
     /\ ing[q].pending # 0
     /\ ing[q].msg.provider = m.provider
     /\ ing[q].msg.provider_id = m.provider_id

\* ON CONFLICT (provider, provider_id) DO NOTHING: the INSERT returns no row
\* when a committed row with the pair exists
InsertConflicts(p, m) ==
  \E id \in DOMAIN messages :
     /\ messages[id].provider = m.provider
     /\ messages[id].provider_id = m.provider_id

InboundRow(id, m) ==
  [id |-> id, channel |-> "sms", provider |-> m.provider,
   provider_id |-> m.provider_id, direction |-> "in", to_ok |-> FALSE,
   to_present |-> FALSE, status |-> "queued", attempt_count |-> 0,
   next_attempt_at |-> 0, ts |-> 0, last_error |-> FALSE,
   from_msisdn |-> m.msisdn, body |-> m.text]

\* the call returns {stored_message_id, idempotent} (ok) or rejects with the
\* error that withTxn rethrows
Return(p, id, idem, ok, error) ==
  /\ returns' = Append(returns,
        [proc |-> p, msg |-> ing[p].msg, id |-> id, idempotent |-> idem,
         ok |-> ok, error |-> error, startedAt |-> ing[p].startedAt,
         finishedAt |-> stamp + 1])
  /\ stamp' = stamp + 1

\* messages.provider_id is NOT NULL (02_add_idempotency.sql); from_msisdn and
\* body are nullable: the INSERT fails only for a missing provider_id
NotNullViolation(m) == m.provider_id = "undefined"

\* an ingestion that writes no audit event
NoAuditEvents(messageId) == << >>

\* INSERT INTO events (type, payload, ts) VALUES ('ingest', {ingested_ok:
\* true, message_id, ...}, now()): the rows written
AuditEvents(messageId) == <<[type |-> "ingest", message_id |-> messageId]>>

\* handleProviderMessage after ingestMessage: 202 when it returned, 500 when
\* it threw (no validation text in the message); a direct call answers nobody
Answered(p, ok) ==
  [IdleIngestor EXCEPT
     !.reply = IF ing[p].via = "direct" THEN NoReply
               ELSE IF ok THEN [status |-> 202, error |-> "", field |-> ""]
               ELSE [status |-> 500, error |-> "internal_error", field |-> ""]]

\* withTxn: BEGIN
IngestBegin(p, m) ==
  /\ ing[p].pc = "idle"
  /\ started < MaxIngestCalls
  /\ ing' = [ing EXCEPT ![p] = [pc |-> "select", msg |-> m, pending |-> 0,
                                startedAt |-> stamp + 1,
                                via |-> "direct", reply |-> NoReply]]
  /\ stamp' = stamp + 1
  /\ started' = started + 1
  /\ UNCHANGED <<messages, events, nextId, returns, deliveryVars>>

\* the idempotency check; a hit returns the existing id and commits
IngestSelect(p) ==
  /\ ing[p].pc = "select"
  /\ IF ExistingRows(ing[p].msg) # {}
       THEN /\ \E id \in ExistingRows(ing[p].msg) :
                  Return(p, id, TRUE, TRUE, "none")
            /\ ing' = [ing EXCEPT ![p] = Answered(p, TRUE)]
       ELSE /\ ing' = [ing EXCEPT ![p].pc = "insert"]
            /\ UNCHANGED <<returns, stamp>>
  /\ UNCHANGED <<messages, events, nextId, started, deliveryVars>>

\* INSERT ... ON CONFLICT (provider, provider_id) DO NOTHING RETURNING id
IngestInsert(p) ==
  /\ ing[p].pc = "insert"
  /\ IF NotNullViolation(ing[p].msg)
       THEN /\ Return(p, 0, FALSE, FALSE, "store_error")
            /\ ing' = [ing EXCEPT ![p] = Answered(p, FALSE)]
            /\ UNCHANGED nextId
       ELSE /\ ~BlockedByUncommitted(p, ing[p].msg)
            /\ IF InsertConflicts(p, ing[p].msg)
                 THEN /\ ing' = [ing EXCEPT ![p].pc = "reselect"]
                      /\ UNCHANGED nextId
                 ELSE /\ ing' = [ing EXCEPT ![p].pc = "event",
                                            ![p].pending = nextId]
                      /\ nextId' = nextId + 1
            /\ UNCHANGED <<returns, stamp>>
  /\ UNCHANGED <<messages, events, started, deliveryVars>>

\* conflict: fetch the existing message; conflictResult.rows[0].id throws
\* when no row is found, and withTxn rolls back
IngestReselect(p) ==
  /\ ing[p].pc = "reselect"
  /\ IF ExistingRows(ing[p].msg) # {}
       THEN \E id \in ExistingRows(ing[p].msg) : Return(p, id, TRUE, TRUE, "none")
       ELSE Return(p, 0, FALSE, FALSE, "TypeError")
  /\ ing' = [ing EXCEPT ![p] = Answered(p, ExistingRows(ing[p].msg) # {})]
  /\ UNCHANGED <<messages, events, nextId, started, deliveryVars>>

\* INSERT INTO events ('ingest', ...), then COMMIT and return the new id
IngestCommit(p) ==
  /\ ing[p].pc = "event"
  /\ messages' = messages @@ (ing[p].pending :> InboundRow(ing[p].pending, ing[p].msg))
  /\ events' = events \o AuditEvents(ing[p].pending)
  /\ Return(p, ing[p].pending, FALSE, TRUE, "none")
  /\ ing' = [ing EXCEPT ![p] = Answered(p, TRUE)]
  /\ UNCHANGED <<nextId, started, deliveryVars>>

\* a transaction helper whose catch block commits what was inserted so far
RolledBackKeepsRow(p) ==
  messages @@ (ing[p].pending :> InboundRow(ing[p].pending, ing[p].msg))

\* withTxn's catch block: ROLLBACK discards the row inserted by the
\* transaction of p; the committed table is what it was
RolledBack(p) == messages

\* the events INSERT fails (store error): withTxn rolls back and rethrows
IngestEventFail(p) ==
  /\ ing[p].pc = "event"
  /\ messages' = RolledBack(p)
  /\ Return(p, 0, FALSE, FALSE, "store_error")
  /\ ing' = [ing EXCEPT ![p] = Answered(p, FALSE)]
  /\ UNCHANGED <<events, nextId, started, deliveryVars>>

NextIngest ==
  \/ \E p \in Ingestors, m \in InboundMsgs : IngestBegin(p, m)
  \/ \E p \in Ingestors : IngestSelect(p)
  \/ \E p \in Ingestors : IngestInsert(p)
  \/ \E p \in Ingestors : IngestReselect(p)
  \/ \E p \in Ingestors : IngestCommit(p)
  \/ \E p \in Ingestors : IngestEventFail(p)

SpecIngest == Init /\ [][NextIngest]_vars

\* ingestMessage called directly, with messages no adapter has checked
NextIngestRaw ==
  \/ \E p \in Ingestors, m \in RawMsgs : IngestBegin(p, m)
  \/ \E p \in Ingestors : IngestSelect(p)
  \/ \E p \in Ingestors : IngestInsert(p)
  \/ \E p \in Ingestors : IngestReselect(p)
  \/ \E p \in Ingestors : IngestCommit(p)
  \/ \E p \in Ingestors : IngestEventFail(p)

SpecIngestRaw == Init /\ [][NextIngestRaw]_vars

\* ------------------------------------------------- provider request handler
\* Strings the adapters inspect are sequences of characters; a field the
\* payload does not carry (undefined or null) is Undefined.
Undefined == <<"undefined">>

Digit == {"0", "1", "2", "3", "4", "5", "6", "7", "8", "9"}

Whitespace == {" "}

\* request payloads: the sender's number, the text and the provider's id
MsisdnValues ==
  { Undefined, <<>>,
    <<"+", "2", "7", "8", "2", "4", "5", "3", "7", "1", "2", "5">>,
    <<"2", "7", "8", "2", "4", "5", "3", "7", "1", "2", "5">>,
    <<"1", "2", "3", "4", "5">>,
    <<"+", "2", "7", " ", "8", "2", "4", "5", "3", "7", "1", "2", "5">> }

TextValues == { Undefined, <<>>, <<" ", " ">>, <<"h", "e", "l", "p", " ">> }

ProviderIdValues == { Undefined, <<>>, <<"S", "M", "1">> }

\* payloads with at most one field missing, empty or malformed
Bodies ==
  LET Sound == [msisdn |-> <<"+", "2", "7", "8", "2", "4", "5", "3", "7", "1",
                             "2", "5">>,
                text |-> <<"h", "e", "l", "p", " ">>,
                provider_id |-> <<"S", "M", "1">>]
  IN  {[Sound EXCEPT !.msisdn = v] : v \in MsisdnValues}
        \cup {[Sound EXCEPT !.text = v] : v \in TextValues}
        \cup {[Sound EXCEPT !.provider_id = v] : v \in ProviderIdValues}

\* the names under which each adapter reads and reports its fields
FieldName(providerKey) ==
  IF providerKey = "twilio"
    THEN [msisdn |-> "From", text |-> "Body", provider_id |-> "MessageSid"]
    ELSE [msisdn |-> "msisdn", text |-> "text", provider_id |-> "provider_id"]

\* a JavaScript string value built from its characters
RECURSIVE Str(_)
Str(chars) == IF chars = <<>> THEN "" ELSE Head(chars) \o Str(Tail(chars))

IsDigit(c) == c \in Digit

StartsWithPlus(msisdn) == msisdn # <<>> /\ Head(msisdn) = "+"

toE164(msisdn) ==
  LET digits == SelectSeq(msisdn, IsDigit)
  IN  IF msisdn = <<>> THEN <<>>
      ELSE IF digits # <<>> /\ ~StartsWithPlus(msisdn) THEN <<"+">> \o digits
      ELSE IF StartsWithPlus(msisdn) THEN msisdn
      ELSE <<"+">> \o msisdn

\* /^\+[1-9]\d{8,14}$/
isValidE164(msisdn) ==
  /\ msisdn # <<>>
  /\ Len(msisdn) >= 10
  /\ Len(msisdn) <= 16
  /\ msisdn[1] = "+"
  /\ msisdn[2] \in Digit \ {"0"}
  /\ \A i \in 3..Len(msisdn) : msisdn[i] \in Digit

RECURSIVE trimStart(_)
trimStart(text) ==
  IF text # <<>> /\ Head(text) \in Whitespace THEN trimStart(Tail(text))
  ELSE text

RECURSIVE trimEnd(_)
trimEnd(text) ==
  IF text # <<>> /\ text[Len(text)] \in Whitespace
    THEN trimEnd(SubSeq(text, 1, Len(text) - 1))
  ELSE text

trim(text) == trimEnd(trimStart(text))

\* requireField throws for these values
FieldAbsentUnlessEmpty(value) == value = Undefined

FieldAbsent(value) == value = Undefined \/ value = <<>>

\* fromTwilio, fromGeneric: the message of the error thrown, or "" and the
\* normalized message
normalizeInbound(providerKey, body) ==
  LET name == FieldName(providerKey)
      thrown(message, field) ==
        [message |-> message, field |-> field,
         msg |-> [provider |-> "", provider_id |-> "", msisdn |-> "",
                  text |-> ""]]
  IN  IF FieldAbsent(body.msisdn)
        THEN thrown("Missing required field", name.msisdn)
      ELSE IF FieldAbsent(body.text)
        THEN thrown("Missing required field", name.text)
      ELSE IF FieldAbsent(body.provider_id)
        THEN thrown("Missing required field", name.provider_id)
      ELSE IF ~isValidE164(toE164(body.msisdn))
        THEN thrown("Invalid E.164 format for msisdn", "")
      ELSE IF trim(body.text) = <<>>
        THEN thrown("Text cannot be empty", "")
      ELSE [message |-> "", field |-> "",
            msg |-> [provider |-> providerKey,
                     provider_id |-> Str(body.provider_id),
                     msisdn |-> Str(toE164(body.msisdn)),
                     text |-> Str(trim(body.text))]]

\* normalizeInbound over the requests considered, computed once
Normalized ==
  [providerKey \in Providers |->
     [body \in Bodies |-> normalizeInbound(providerKey, body)]]

\* the catch block of handleProviderMessage
ValidationReply(thrown) ==
  IF thrown.message = "Missing required field"
    THEN [status |-> 400, error |-> "validation_error", field |-> thrown.field]
  ELSE IF thrown.message = "Invalid E.164 format for msisdn"
    THEN [status |-> 400, error |-> "validation_error", field |-> "msisdn"]
  ELSE IF thrown.message = "Text cannot be empty"
    THEN [status |-> 400, error |-> "validation_error", field |-> "text"]
  ELSE [status |-> 500, error |-> "internal_error", field |-> ""]

\* POST /sms/provider/<providerKey>: normalize, then ingest; a payload the
\* adapter rejects is answered at once
ProviderRequest(p, providerKey, body) ==
  LET n == Normalized[providerKey][body]
  IN  /\ ing[p].pc = "idle"
      /\ IF n.message # ""
           THEN /\ ing' = [ing EXCEPT ![p] =
                             [IdleIngestor EXCEPT !.reply = ValidationReply(n)]]
                /\ UNCHANGED <<stamp, started>>
           ELSE /\ started < MaxIngestCalls
                /\ ing' = [ing EXCEPT ![p] =
                             [pc |-> "select", msg |-> n.msg, pending |-> 0,
                              startedAt |-> stamp + 1, via |-> "provider",
                              reply |-> NoReply]]
                /\ stamp' = stamp + 1
                /\ started' = started + 1
      /\ UNCHANGED <<messages, events, nextId, returns, deliveryVars>>

NextProvider ==
  \/ \E p \in Ingestors, k \in Providers, b \in Bodies : ProviderRequest(p, k, b)
  \/ \E p \in Ingestors : IngestSelect(p)
  \/ \E p \in Ingestors : IngestInsert(p)
  \/ \E p \in Ingestors : IngestReselect(p)
  \/ \E p \in Ingestors : IngestCommit(p)
  \/ \E p \in Ingestors : IngestEventFail(p)

\* the ingest path reads no environment flag
InitProvider == Init /\ env.DLQ_ENABLED = "unset"

SpecProvider == InitProvider /\ [][NextProvider]_vars

\* ------------------------------------------------------------ claim helpers
SameKey(a, b) == a.provider = b.provider /\ a.provider_id = b.provider_id

RowsWithKey(m) ==
  {id \in DOMAIN messages : SameKey(messages[id], m)}

OkReturns == {i \in DOMAIN returns : returns[i].ok}

\* call i returned before call j began
Before(i, j) == returns[i].finishedAt < returns[j].startedAt

\* no other call for the same pair began before call i returned
FirstForKey(i) ==
  \A j \in DOMAIN returns :
     (j # i /\ SameKey(returns[j].msg, returns[i].msg)) => Before(i, j)

\* C1: ingestMessage(m) followed sequentially by ingestMessage(m) returns the
\* same stored_message_id both times, idempotent=false on the first call and
\* idempotent=true on the second, and exactly one row holds m's
\* (provider, provider_id).
C1_SequentialIdempotency ==
  \A i \in OkReturns, j \in OkReturns :
     (SameKey(returns[i].msg, returns[j].msg) /\ Before(i, j)) =>
        /\ returns[j].idempotent
        /\ returns[j].id = returns[i].id
        /\ (FirstForKey(i) => ~returns[i].idempotent)
        /\ RowsWithKey(returns[i].msg) = {returns[i].id}

C1_Witness ==
  \E i \in OkReturns, j \in OkReturns :
     /\ SameKey(returns[i].msg, returns[j].msg) /\ Before(i, j)
     /\ FirstForKey(i)
     /\ ~returns[i].idempotent /\ returns[j].idempotent

Overlap(i, j) ==
  /\ returns[i].startedAt < returns[j].finishedAt
  /\ returns[j].startedAt < returns[i].finishedAt

\* C2: under any interleaving of two concurrent ingestMessage transactions
\* with the same (provider, provider_id), at most one row with the pair ever
\* exists (committed or not), every call that returns reports the id of that
\* row, and exactly one call reports idempotent=false.
C2_ConcurrentIdempotency ==
  /\ \A m \in InboundMsgs :
        Cardinality(RowsWithKey(m)) +
        Cardinality({p \in Ingestors : ing[p].pending # 0 /\ SameKey(ing[p].msg, m)}) <= 1
  /\ \A i \in OkReturns :
        /\ RowsWithKey(returns[i].msg) = {returns[i].id}
        /\ Cardinality({j \in OkReturns : SameKey(returns[j].msg, returns[i].msg)
                                           /\ ~returns[j].idempotent}) = 1

\* two overlapping calls for one pair, the later one having passed the first
\* SELECT before the row was committed
C2_Witness ==
  \E i \in OkReturns, j \in OkReturns :
     /\ i # j /\ SameKey(returns[i].msg, returns[j].msg) /\ Overlap(i, j)
     /\ ~returns[i].idempotent /\ returns[j].idempotent
     /\ returns[j].startedAt < returns[i].startedAt


\* ========================================================== circuit breaker
\* an upsert that never stamps opened_at
updateBreakerStateUnstamped(state, failureCount, successCount, t) ==
  [present |-> TRUE, state |-> state, failure_count |-> failureCount,
   success_count |-> successCount, opened_at |-> NULL]

\* updateBreakerState(state, failureCount, successCount): the upsert; opened_at
\* is the current time for state open and NULL otherwise
updateBreakerState(state, failureCount, successCount, t) ==
  [present |-> TRUE, state |-> state, failure_count |-> failureCount,
   success_count |-> successCount,
   opened_at |-> IF state = "open" THEN t ELSE NULL]

\* getBreakerState(): the state it reports
getBreakerStateResult(b, t) ==
  IF ~b.present THEN "closed"
  ELSE IF b.state = "open" /\ t - b.opened_at >= halfOpenAfter THEN "half_open"
  ELSE b.state

\* getBreakerState(): the row it leaves behind
getBreakerStateRow(b, t) ==
  IF b.present /\ b.state = "open" /\ t - b.opened_at >= halfOpenAfter
    THEN updateBreakerState("half_open", 0, 0, t)
    ELSE b

\* isRequestAllowed()
isRequestAllowed(b, t) == getBreakerStateResult(b, t) # "open"

\* recordAttempt(success, httpCode): the row it leaves behind
recordAttempt(b, success, t) ==
  LET currentState == getBreakerStateResult(b, t)
      b1 == getBreakerStateRow(b, t)
      newFailureCount == (IF b1.present THEN b1.failure_count ELSE 0) + 1
      newSuccessCount == (IF b1.present THEN b1.success_count ELSE 0) + 1
  IN  IF currentState = "closed"
        THEN IF success THEN updateBreakerState("closed", 0, 0, t)
             ELSE IF newFailureCount >= failThreshold
                    THEN updateBreakerState("open", newFailureCount, 0, t)
                    ELSE updateBreakerState("closed", newFailureCount, 0, t)
      ELSE IF currentState = "half_open"
        THEN IF success
               THEN IF newSuccessCount >= successThreshold
                      THEN updateBreakerState("closed", 0, 0, t)
                      ELSE updateBreakerState("half_open", 0, newSuccessCount, t)
               ELSE updateBreakerState("open", 1, 0, t)
      ELSE b1

\* operator commands of the handoff runbook: UPDATE breaker_state SET
\* state='closed' ... WHERE service='wa_bridge' (no effect without the row)
OpsCloseBreaker ==
  /\ breaker.present
  /\ breaker' = [breaker EXCEPT !.state = "closed", !.failure_count = 0,
                                !.success_count = 0, !.opened_at = NULL]
  /\ UNCHANGED <<messages, events, nextId, ingestVars, wa_attempts, now, wk,
                 rt, sends, restarts, bk, streak, env, calc, snd>>

\* UPDATE breaker_state SET state='open', ... opened_at=now() (pause worker)
OpsOpenBreaker ==
  /\ breaker.present
  /\ breaker' = [breaker EXCEPT !.state = "open", !.failure_count = 0,
                                !.success_count = 0, !.opened_at = now]
  /\ UNCHANGED <<messages, events, nextId, ingestVars, wa_attempts, now, wk,
                 rt, sends, restarts, bk, streak, env, calc, snd>>

\* time passes
Tick ==
  /\ now + TickSecs <= MaxTime
  /\ now' = now + TickSecs
  /\ UNCHANGED <<messages, events, nextId, ingestVars, wa_attempts, breaker,
                 wk, rt, sends, restarts, bk, streak, env, calc, snd>>

\* ------------------------------------------- the breaker module, by statement
\* each action is one statement sent to the store and the local code that
\* follows it up to the next statement; callers are the request handlers and
\* processes that share the breaker_state row

\* the calls made: isRequestAllowed(), recordAttempt(true, ..),
\* recordAttempt(false, ..)
BreakerCalls == {<<"isRequestAllowed", FALSE>>, <<"recordAttempt", TRUE>>,
                 <<"recordAttempt", FALSE>>}

\* a cooldown test that lets the breaker through one instant late
CooldownElapsedLate(openedAt, t) == t - openedAt > halfOpenAfter

\* timeSinceOpened >= DEFAULT_BREAKER_CONFIG.halfOpenAfter
CooldownElapsed(openedAt, t) == t - openedAt >= halfOpenAfter

\* a threshold test that opens one failure late
OpensAfterThreshold(newFailureCount) == newFailureCount > failThreshold

\* newFailureCount >= DEFAULT_BREAKER_CONFIG.failThreshold
OpensAtThreshold(newFailureCount) == newFailureCount >= failThreshold

\* a threshold test that closes one success late
ClosesAfterThreshold(newSuccessCount) == newSuccessCount > successThreshold

\* newSuccessCount >= DEFAULT_BREAKER_CONFIG.successThreshold
ClosesAtThreshold(newSuccessCount) == newSuccessCount >= successThreshold

\* a recordAttempt that counts the outcome although the breaker is open
WhileOpenCounted(me) ==
  [me EXCEPT !.pc = "write", !.wstate = "open", !.wfail = 1, !.wsucc = 0]

\* recordAttempt: "If state is OPEN, we don't record attempts": it returns
WhileOpen(me) == IdleCaller

\* the code after `currentState = await getBreakerState()`, up to the next
\* statement or the return: the caller's next position
AfterGetState(c, cur) ==
  LET me == [bk[c] EXCEPT !.cur = cur]
  IN  IF me.op = "isRequestAllowed"
        THEN [IdleCaller EXCEPT !.ret = IF cur # "open" THEN "true" ELSE "false"]
      ELSE IF cur = "closed"
        THEN IF me.success
               THEN [me EXCEPT !.pc = "write", !.wstate = "closed",
                               !.wfail = 0, !.wsucc = 0]
               ELSE [me EXCEPT !.pc = "count"]
      ELSE IF cur = "half_open"
        THEN IF me.success
               THEN [me EXCEPT !.pc = "count"]
               ELSE [me EXCEPT !.pc = "write", !.wstate = "open",
                               !.wfail = 1, !.wsucc = 0]
      ELSE WhileOpen(me)

\* caller c's call returns in this step
Returned(c) == bk[c].pc # "idle" /\ bk'[c].pc = "idle"

\* the history of outcomes reported by caller c
Outcome(c) ==
  streak' = IF Returned(c) /\ bk[c].op = "recordAttempt"
              THEN IF bk[c].success THEN 0
                   ELSE IF streak < failThreshold THEN streak + 1 ELSE streak
              ELSE streak

\* a call begins
BkCall(c, op, success) ==
  /\ bk[c].pc = "idle"
  /\ bk' = [bk EXCEPT ![c] = [IdleCaller EXCEPT !.pc = "select", !.op = op,
                                                !.success = success]]
  /\ UNCHANGED <<messages, events, nextId, ingestVars, wa_attempts, breaker,
                 now, wk, rt, sends, restarts, env, calc, snd>>

\* getBreakerState: SELECT state, opened_at ... LIMIT 1 and the cooldown test
BkSelect(c) ==
  /\ bk[c].pc = "select"
  /\ IF ~breaker.present
       THEN bk' = [bk EXCEPT ![c] = AfterGetState(c, "closed")]
     ELSE IF breaker.state = "open" /\ CooldownElapsed(breaker.opened_at, now)
       THEN bk' = [bk EXCEPT ![c].pc = "promote"]
     ELSE bk' = [bk EXCEPT ![c] = AfterGetState(c, breaker.state)]
  /\ UNCHANGED <<messages, events, nextId, ingestVars, wa_attempts, breaker,
                 now, wk, rt, sends, restarts, env, calc, snd>>

\* a promotion that carries the failure count of the open row over
PromotedRowKeepsCount(t) ==
  updateBreakerState("half_open", breaker.failure_count, 0, t)

\* getBreakerState: the row written when the cooldown has elapsed,
\* updateBreakerState(HALF_OPEN, 0, 0)
PromotedRow(t) == updateBreakerState("half_open", 0, 0, t)

\* getBreakerState: updateBreakerState(HALF_OPEN, 0, 0); return HALF_OPEN
BkPromote(c) ==
  /\ bk[c].pc = "promote"
  /\ breaker' = PromotedRow(now)
  /\ bk' = [bk EXCEPT ![c] = AfterGetState(c, "half_open")]
  /\ UNCHANGED <<messages, events, nextId, ingestVars, wa_attempts, now, wk,
                 rt, sends, restarts, env, calc, snd>>

\* recordAttempt: SELECT failure_count (closed) or success_count (half_open)
\* and the choice of the row to write
BkCount(c) ==
  /\ bk[c].pc = "count"
  /\ LET currentFailures == IF breaker.present THEN breaker.failure_count ELSE 0
         currentSuccesses == IF breaker.present THEN breaker.success_count ELSE 0
         newFailureCount == currentFailures + 1
         newSuccessCount == currentSuccesses + 1
     IN  bk' = [bk EXCEPT ![c] =
           IF bk[c].cur = "closed"
             THEN IF OpensAtThreshold(newFailureCount)
                    THEN [@ EXCEPT !.pc = "write", !.wstate = "open",
                                   !.wfail = newFailureCount, !.wsucc = 0]
                    ELSE [@ EXCEPT !.pc = "write", !.wstate = "closed",
                                   !.wfail = newFailureCount, !.wsucc = 0]
             ELSE IF ClosesAtThreshold(newSuccessCount)
                    THEN [@ EXCEPT !.pc = "write", !.wstate = "closed",
                                   !.wfail = 0, !.wsucc = 0]
                    ELSE [@ EXCEPT !.pc = "write", !.wstate = "half_open",
                                   !.wfail = 0, !.wsucc = newSuccessCount]]
  /\ UNCHANGED <<messages, events, nextId, ingestVars, wa_attempts, breaker,
                 now, wk, rt, sends, restarts, env, calc, snd>>

\* recordAttempt: updateBreakerState(...) and the return
BkWrite(c) ==
  /\ bk[c].pc = "write"
  /\ breaker' = updateBreakerState(bk[c].wstate, bk[c].wfail, bk[c].wsucc, now)
  /\ bk' = [bk EXCEPT ![c] = IdleCaller]
  /\ UNCHANGED <<messages, events, nextId, ingestVars, wa_attempts, now, wk,
                 rt, sends, restarts, env, calc, snd>>

\* time passes
Elapse ==
  /\ now + ElapseSecs <= MaxClock
  /\ now' = now + ElapseSecs
  /\ UNCHANGED <<messages, events, nextId, ingestVars, wa_attempts, breaker,
                 wk, rt, sends, restarts, bk, streak, env, calc, snd>>

\* one caller at a time: every call runs to its return before the next begins
NextBreaker1 ==
  \/ \E call \in BreakerCalls : BkCall(1, call[1], call[2]) /\ Outcome(1)
  \/ BkSelect(1) /\ Outcome(1)
  \/ BkPromote(1) /\ Outcome(1)
  \/ BkCount(1) /\ Outcome(1)
  \/ BkWrite(1) /\ Outcome(1)
  \/ Elapse

SpecBreaker1 == Init /\ [][NextBreaker1]_vars

\* the same callers in the deployment of the rollback plan
SpecRollback == InitRollback /\ [][NextBreaker1]_vars

\* ------------------------------------------------ the store rejects a query
\* a getBreakerState whose catch block lets the error out to the caller
getBreakerStateRethrows(c) == [IdleCaller EXCEPT !.ret = "threw"]

\* getBreakerState's catch block: log and `return BREAKER_STATES.CLOSED`; the
\* caller goes on as after a closed read
getBreakerStateCatch(c) == AfterGetState(c, "closed")

\* getBreakerState: the SELECT throws
BkSelectThrows(c) ==
  /\ bk[c].pc = "select"
  /\ breaker.failure_count < MaxFailureCount
  /\ bk' = [bk EXCEPT ![c] = getBreakerStateCatch(c)]
  /\ UNCHANGED <<messages, events, nextId, ingestVars, wa_attempts, breaker,
                 now, wk, rt, sends, restarts, env, calc, snd>>

\* getBreakerState: the upsert of updateBreakerState(HALF_OPEN, 0, 0) throws;
\* updateBreakerState's catch block logs, and getBreakerState returns HALF_OPEN
BkPromoteThrows(c) ==
  /\ bk[c].pc = "promote"
  /\ bk' = [bk EXCEPT ![c] = AfterGetState(c, "half_open")]
  /\ UNCHANGED <<messages, events, nextId, ingestVars, wa_attempts, breaker,
                 now, wk, rt, sends, restarts, env, calc, snd>>

\* recordAttempt: the SELECT of failure_count or success_count throws;
\* recordAttempt's catch block logs and the call returns
BkCountThrows(c) ==
  /\ bk[c].pc = "count"
  /\ bk' = [bk EXCEPT ![c] = IdleCaller]
  /\ UNCHANGED <<messages, events, nextId, ingestVars, wa_attempts, breaker,
                 now, wk, rt, sends, restarts, env, calc, snd>>

\* recordAttempt: the upsert of updateBreakerState(...) throws;
\* updateBreakerState's catch block logs and the call returns
BkWriteThrows(c) ==
  /\ bk[c].pc = "write"
  /\ bk' = [bk EXCEPT ![c] = IdleCaller]
  /\ UNCHANGED <<messages, events, nextId, ingestVars, wa_attempts, breaker,
                 now, wk, rt, sends, restarts, env, calc, snd>>

\* one caller and a store that may reject any query
NextBreakerFaults ==
  \/ \E call \in BreakerCalls : BkCall(1, call[1], call[2]) /\ Outcome(1)
  \/ BkSelect(1) /\ Outcome(1)
  \/ BkPromote(1) /\ Outcome(1)
  \/ BkCount(1) /\ Outcome(1)
  \/ BkWrite(1) /\ Outcome(1)
  \/ BkSelectThrows(1) /\ Outcome(1)
  \/ BkPromoteThrows(1) /\ Outcome(1)
  \/ BkCountThrows(1) /\ Outcome(1)
  \/ BkWriteThrows(1) /\ Outcome(1)
  \/ Elapse

SpecBreakerFaults == Init /\ [][NextBreakerFaults]_vars

\* the history of outcomes reported by all callers: at most one call returns
\* in a step
Outcomes ==
  LET done == {c \in Callers : Returned(c) /\ bk[c].op = "recordAttempt"}
  IN  streak' = IF done = {} THEN streak
                ELSE IF \E c \in done : bk[c].success THEN 0
                ELSE IF streak < failThreshold THEN streak + 1 ELSE streak

\* concurrent callers
NextBreaker ==
  \/ \E c \in Callers, call \in BreakerCalls :
        BkCall(c, call[1], call[2]) /\ Outcomes
  \/ \E c \in Callers : BkSelect(c) /\ Outcomes
  \/ \E c \in Callers : BkPromote(c) /\ Outcomes
  \/ \E c \in Callers : BkCount(c) /\ Outcomes
  \/ \E c \in Callers : BkWrite(c) /\ Outcomes
  \/ Elapse

SpecBreaker == Init /\ [][NextBreaker]_vars

\* ========================================================= Pub/Sub sender
\* retryWithBackoff(fn, maxRetries = 3)
maxRetries == 3

\* message.data of a delivery: text that JSON.parse rejects, or an object
\* whose `to` and `text` are missing, empty or present
RecipientValues ==
  { Undefined, <<>>,
    <<"+", "2", "7", "8", "2", "4", "5", "3", "7", "1", "2", "5">>,
    <<"0", "8", "2", "-", "1">>, <<"n", "a">> }

SenderPayloads ==
  {[parses |-> FALSE, to |-> <<>>, text |-> <<>>]} \cup
  [parses : {TRUE}, to : RecipientValues,
   text : {Undefined, <<>>, <<"h", "i">>}]

\* String(waMessage.to).replace(/\D/g, '')
cleanTo(to) == SelectSeq(to, IsDigit)

\* processWAMessage up to the bridge call: JSON.parse, the test of `to` and
\* `text`, and the test of the digits of `to`; FALSE when one of them throws
ValidWAMessage(data) ==
  /\ data.parses
  /\ ~(FieldAbsent(data.to) \/ FieldAbsent(data.text))
  /\ ~(cleanTo(data.to) = <<>> \/ Len(cleanTo(data.to)) < 10)

\* a retry loop that gives up one attempt late
LastAttemptLate(attempt) == attempt = maxRetries + 1

\* retryWithBackoff: `if (attempt === maxRetries) throw error`
LastAttempt(attempt) == attempt = maxRetries

\* subscription.on('message'): a delivery arrives
SndReceive(d, data) ==
  /\ snd[d].pc = "idle"
  /\ snd' = [snd EXCEPT ![d] = [IdleDelivery EXCEPT !.pc = "received",
                                                    !.data = data]]
  /\ UNCHANGED <<messages, events, nextId, ingestVars, wa_attempts, breaker,
                 now, wk, rt, sends, restarts, bk, streak, env, calc>>

\* processWAMessage: parse and validate; a throw goes to the handler's catch
SndValidate(d) ==
  /\ snd[d].pc = "received"
  /\ snd' = [snd EXCEPT ![d] =
        IF ValidWAMessage(snd[d].data)
          THEN [@ EXCEPT !.pc = "calling", !.attempt = 1]
          ELSE [@ EXCEPT !.pc = "failed"]]
  /\ UNCHANGED <<messages, events, nextId, ingestVars, wa_attempts, breaker,
                 now, wk, rt, sends, restarts, bk, streak, env, calc>>

\* retryWithBackoff: `return await fn()`; sendToWhatsAppBridge returns the
\* body of a 2xx answer and throws otherwise; the catch block rethrows after
\* the last attempt and waits before any other
SndBridge(d, ok) ==
  /\ snd[d].pc = "calling"
  /\ snd' = [snd EXCEPT ![d] =
        IF ok THEN [@ EXCEPT !.calls = @ + 1, !.succeeded = TRUE, !.pc = "done"]
        ELSE IF LastAttempt(snd[d].attempt)
          THEN [@ EXCEPT !.calls = @ + 1, !.pc = "failed"]
          ELSE [@ EXCEPT !.calls = @ + 1, !.pc = "backoff"]]
  /\ UNCHANGED <<messages, events, nextId, ingestVars, wa_attempts, breaker,
                 now, wk, rt, sends, restarts, bk, streak, env, calc>>

\* retryWithBackoff: the timer of 2^(attempt-1) seconds fires; next attempt
SndBackoff(d) ==
  /\ snd[d].pc = "backoff"
  /\ snd' = [snd EXCEPT ![d].pc = "calling", ![d].attempt = @ + 1]
  /\ UNCHANGED <<messages, events, nextId, ingestVars, wa_attempts, breaker,
                 now, wk, rt, sends, restarts, bk, streak, env, calc>>

\* the handler: message.ack() after processWAMessage returned, message.nack()
\* in its catch block
SndSettle(d) ==
  /\ snd[d].pc \in {"done", "failed"}
  /\ snd' = [snd EXCEPT ![d] =
        IF snd[d].pc = "done"
          THEN [@ EXCEPT !.acks = @ + 1, !.pc = "settled"]
          ELSE [@ EXCEPT !.nacks = @ + 1, !.pc = "settled"]]
  /\ UNCHANGED <<messages, events, nextId, ingestVars, wa_attempts, breaker,
                 now, wk, rt, sends, restarts, bk, streak, env, calc>>

NextSender ==
  \/ \E d \in Deliveries, data \in SenderPayloads : SndReceive(d, data)
  \/ \E d \in Deliveries : SndValidate(d)
  \/ \E d \in Deliveries, ok \in BOOLEAN : SndBridge(d, ok)
  \/ \E d \in Deliveries : SndBackoff(d)
  \/ \E d \in Deliveries : SndSettle(d)

\* the event loop runs every continuation of a handler; the bridge answers
\* or fails every request; the backoff timers fire
SenderIsFair ==
  \A d \in Deliveries :
     /\ WF_vars(SndValidate(d))
     /\ WF_vars(\E ok \in BOOLEAN : SndBridge(d, ok))
     /\ WF_vars(SndBackoff(d))
     /\ WF_vars(SndSettle(d))

SpecSender == Init /\ [][NextSender]_vars /\ SenderIsFair

\* ============================================================= retry worker
\* a row lock taken by PICK_SQL (FOR UPDATE) is held until that worker's COMMIT
LockedBy(id) == {w \in Workers : wk[w].pc = "picked" /\ wk[w].id = id}

\* the WHERE clause of PICK_SQL
Eligible(id) ==
  /\ messages[id].direction = "out"
  /\ messages[id].channel = "wa"
  /\ messages[id].status = "queued"
  /\ messages[id].next_attempt_at <= now
  /\ messages[id].to_present

\* a pick that takes any free row, whatever its ts
PickCandidatesUnordered ==
  {id \in DOMAIN messages : Eligible(id) /\ LockedBy(id) = {}}

\* ORDER BY ts ASC LIMIT 1 FOR UPDATE SKIP LOCKED: the rows the statement can
\* return (rows locked by another transaction are skipped)
PickCandidates ==
  LET free == {id \in DOMAIN messages : Eligible(id) /\ LockedBy(id) = {}}
  IN  {id \in free : \A other \in free : messages[id].ts <= messages[other].ts}

\* claim transactions that are open (between BEGIN and COMMIT)
OpenClaims == {w \in Workers : wk[w].pc \in {"begun", "picked"}}

\* processOne: BEGIN
WBegin(w) ==
  /\ wk[w].pc = "idle"
  /\ wk' = [v \in Workers |->
              IF v = w THEN [pc |-> "begun", id |-> 0, code |-> 0,
                             peers |-> OpenClaims]
              ELSE IF v \in OpenClaims
                     THEN [wk[v] EXCEPT !.peers = @ \cup {w}]
                     ELSE [wk[v] EXCEPT !.peers = @ \ {w}]]
  /\ UNCHANGED <<messages, events, nextId, ingestVars, wa_attempts, breaker,
                 now, rt, sends, restarts, bk, streak, env, calc, snd>>

\* processOne: PICK_SQL; the row is locked and its update is not yet visible
WPick(w) ==
  /\ wk[w].pc = "begun"
  /\ IF PickCandidates = {}
       THEN wk' = [wk EXCEPT ![w].pc = "picked", ![w].id = 0]
       ELSE \E id \in PickCandidates :
               wk' = [wk EXCEPT ![w].pc = "picked", ![w].id = id]
  /\ UNCHANGED <<messages, events, nextId, ingestVars, wa_attempts, breaker,
                 now, rt, sends, restarts, bk, streak, env, calc, snd>>

\* the catch block of processOne: both branches name `id`, which is declared
\* with const inside the try block and is out of scope here, so evaluating
\* the query parameters throws ReferenceError before any UPDATE is sent; the
\* rejection ends runForever (startRetryProcessor only logs it)
CatchBlock(w, code) ==
  /\ wk' = [wk EXCEPT ![w].pc = "stopped", ![w].code = code]
  /\ UNCHANGED messages

\* a claim that sets the counter instead of raising it
ClaimedCountReset(attempt_count) == 1

\* PICK_SQL: SET attempt_count = COALESCE(m.attempt_count, 0) + 1
ClaimedCount(attempt_count) == attempt_count + 1

\* a claim that marks the row as being processed
ClaimedStatusProcessing(status) == "processing"

\* PICK_SQL sets no status: "leave status as 'queued'"
ClaimedStatus(status) == status

\* processOne: COMMIT; attempt_count + 1, last_error = NULL become visible,
\* the lock is released, status stays queued; no row: return false
WCommit(w) ==
  /\ wk[w].pc = "picked"
  /\ IF wk[w].id = 0
       THEN /\ wk' = [wk EXCEPT ![w].pc = "idle"]
            /\ UNCHANGED messages
       ELSE /\ messages' = [messages EXCEPT
                 ![wk[w].id].attempt_count = ClaimedCount(@),
                 ![wk[w].id].status = ClaimedStatus(@),
                 ![wk[w].id].last_error = FALSE]
            /\ wk' = [wk EXCEPT ![w].pc = "claimed"]
  /\ UNCHANGED <<events, nextId, ingestVars, wa_attempts, breaker, now, rt,
                 sends, restarts, bk, streak, env, calc, snd>>

\* sendText(to_msisdn, body): a to that is not a phone number throws code 400
\* before any request; otherwise the request goes out
WCallBridge(w) ==
  /\ wk[w].pc = "claimed"
  /\ IF messages[wk[w].id].to_ok
       THEN /\ wk' = [wk EXCEPT ![w].pc = "calling"]
            /\ UNCHANGED messages
       ELSE CatchBlock(w, 400)
  /\ UNCHANGED <<events, nextId, ingestVars, wa_attempts, breaker, now, rt,
                 sends, restarts, bk, streak, env, calc, snd>>

\* sendText: the response; !res.ok or body.ok !== true throws with
\* err.code = res.status, a network failure throws with a non-numeric code
\* (Number(err.code) || 0 is 0)
WBridgeReturn(w, resp) ==
  /\ wk[w].pc = "calling"
  /\ IF resp.status = 200 /\ resp.bodyOk
       THEN /\ wk' = [wk EXCEPT ![w].pc = "ok"]
            /\ UNCHANGED messages
       ELSE CatchBlock(w, resp.status)
  /\ UNCHANGED <<events, nextId, ingestVars, wa_attempts, breaker, now, rt,
                 sends, restarts, bk, streak, env, calc, snd>>

\* success: UPDATE messages SET status='sent', ... WHERE id = $2 (waits while
\* another claim holds the row lock)
WMarkSent(w) ==
  /\ wk[w].pc = "ok"
  /\ LockedBy(wk[w].id) = {}
  /\ messages' = [messages EXCEPT ![wk[w].id].status = "sent",
                                  ![wk[w].id].last_error = FALSE]
  /\ wk' = [wk EXCEPT ![w].pc = "idle"]
  /\ UNCHANGED <<events, nextId, ingestVars, wa_attempts, breaker, now, rt,
                 sends, restarts, bk, streak, env, calc, snd>>

\* a server process starts and calls startRetryProcessor again
WRestart(w) ==
  /\ wk[w].pc = "stopped"
  /\ restarts < MaxRestarts
  /\ restarts' = restarts + 1
  /\ wk' = [v \in Workers |->
              IF v = w THEN IdleWorker ELSE [wk[v] EXCEPT !.peers = @ \ {w}]]
  /\ UNCHANGED <<messages, events, nextId, ingestVars, wa_attempts, breaker,
                 now, rt, sends, bk, streak, env, calc, snd>>

\* the worker process is killed between the COMMIT of its claim and the
\* UPDATE that writes the outcome
WTerminate(w) ==
  /\ wk[w].pc \in {"claimed", "calling", "ok"}
  /\ wk' = [wk EXCEPT ![w].pc = "terminated"]
  /\ UNCHANGED <<messages, events, nextId, ingestVars, wa_attempts, breaker,
                 now, rt, sends, restarts, bk, streak, env, calc, snd>>

\* =============================================================== send route
\* INSERT INTO messages (channel 'wa', provider 'internal', direction 'out',
\* status 'queued', attempt_count 0, next_attempt_at now())
OutboundRow(id, to) ==
  [id |-> id, channel |-> "wa", provider |-> "internal",
   provider_id |-> ToString(id), direction |-> "out", to_ok |-> (to = "valid"),
   to_present |-> TRUE, status |-> "queued", attempt_count |-> 0,
   next_attempt_at |-> now, ts |-> now, last_error |-> FALSE]

\* makeRequest: success is response.ok (a 2xx status)
Success(resp) == resp.status >= 200 /\ resp.status < 300

\* shouldRetry(statusCode)
shouldRetry(statusCode) ==
  statusCode >= 500 \/ statusCode = 429 \/ statusCode = 408

\* sendMessage: whether the loop returns after this response
SendMessageReturns(attempt, resp) ==
  \/ Success(resp)
  \/ (resp.status >= 400 /\ resp.status < 500 /\ resp.status # 429)
  \/ attempt = maxAttempts
  \/ ~shouldRetry(resp.status)

\* updateMessageStatus: the statement text uses $1 for status, $2..$(n+1)
\* for the n columns of updates and $(values.length > 1 ? values.length : 1)
\* for the id, with values = [messageId, ...updates]
PlaceholdersUsed(n) == IF n + 1 > 1 THEN n + 1 ELSE 1

\* updateMessageStatus: the parameter list is [status, ...values]
ParamsPassed(n) == 1 + (n + 1)

\* the store rejects a statement whose parameter count differs from the
\* number of placeholders ("bind message supplies k parameters, but prepared
\* statement requires j")
StatementAccepted(n) == ParamsPassed(n) = PlaceholdersUsed(n)

\* the rows WHERE id = $(n+1) selects: the placeholder is bound to messageId
\* only when n = 1; otherwise to a status or an update value, never an id
RowsMatched(n, messageId) == IF n = 1 THEN {messageId} ELSE {}

\* sendTextMessage / sendTemplateMessage: validation, breaker check, INSERT
RouteReceiveUpTo(r, to, limit) ==
  /\ rt[r].pc = "idle"
  /\ IF to = "missing"
       THEN /\ rt' = [rt EXCEPT ![r] = [IdleHandler EXCEPT !.http = 400]]
            /\ UNCHANGED <<messages, nextId, breaker, sends>>
       ELSE /\ breaker' = getBreakerStateRow(breaker, now)
            /\ IF ~isRequestAllowed(breaker, now)
                 THEN /\ rt' = [rt EXCEPT ![r] = [IdleHandler EXCEPT !.http = 503]]
                      /\ UNCHANGED <<messages, nextId, sends>>
                 ELSE /\ sends < limit
                      /\ sends' = sends + 1
                      /\ messages' = messages @@ (nextId :> OutboundRow(nextId, to))
                      /\ nextId' = nextId + 1
                      /\ rt' = [rt EXCEPT ![r] = [pc |-> "sending", id |-> nextId,
                                  attempt |-> 1, resp |-> NoResponse, http |-> 0]]
  /\ UNCHANGED <<events, ingestVars, wa_attempts, now, wk, restarts, bk, streak, env, calc, snd>>

RouteReceive(r, to) == RouteReceiveUpTo(r, to, MaxSends)

\* sendMessage: one request of the loop and its response
RouteRequest(r, resp) ==
  /\ rt[r].pc = "sending"
  /\ IF SendMessageReturns(rt[r].attempt, resp)
       THEN rt' = [rt EXCEPT ![r].pc = "record", ![r].resp = resp]
       ELSE rt' = [rt EXCEPT ![r].attempt = @ + 1]
  /\ UNCHANGED <<messages, events, nextId, ingestVars, wa_attempts, breaker,
                 now, wk, sends, restarts, bk, streak, env, calc, snd>>

\* the status this request writes, and the number of columns in `updates`
RouteStatus(resp) ==
  IF Success(resp) THEN "sent"
  ELSE IF 1 >= maxAttempts THEN "permanently_failed" ELSE "queued"

RouteUpdateColumns(resp) ==
  IF Success(resp) THEN 1 ELSE IF 1 >= maxAttempts THEN 3 ELSE 4

RouteAnswer(resp) ==
  IF Success(resp) THEN 200 ELSE IF 1 >= maxAttempts THEN 502 ELSE 202

\* RETRY_SCHEDULE default '1s,4s,15s,60s', in seconds, and RETRY_JITTER_MS
retrySchedule == <<1, 4, 15, 60>>
jitterMs == 200

\* a schedule read round and round instead of held at its last entry
baseDelayWrapped(attemptNumber) ==
  retrySchedule[((attemptNumber - 1) % Len(retrySchedule)) + 1]

\* calculateNextAttempt(attemptNumber): the delay before the jitter, in
\* seconds: retrySchedule[Math.min(attemptNumber - 1, length - 1)]
baseDelay(attemptNumber) ==
  LET delayIndex == IF attemptNumber - 1 < Len(retrySchedule) - 1
                      THEN attemptNumber - 1 ELSE Len(retrySchedule) - 1
  IN  retrySchedule[delayIndex + 1]

\* LEAST(a, b), Math.min(a, b)
Least(a, b) == IF a < b THEN a ELSE b

\* processOne, retry branch: make_interval(secs => 30 * LEAST(10,
\* attempt_count + 1)), in seconds
sqlBackoff(attempt_count) == 30 * Least(10, attempt_count + 1)

\* calculateNextAttempt(attemptNumber, baseDelay = 30000) of the retry queue
queueBaseDelay == 30000

\* baseDelay * Math.min(10, attemptNumber + 1), in milliseconds
queueDelay(attemptNumber) == queueBaseDelay * Least(10, attemptNumber + 1)

\* the three backoff rules of the repository
BackoffRules == {"send.js", "PICK_SQL", "retryQueue.js"}

\* the base delay rule fn assigns after attempt a
Delay(fn, a) ==
  CASE fn = "send.js" -> baseDelay(a) * 1000
    [] fn = "PICK_SQL" -> sqlBackoff(a)
    [] fn = "retryQueue.js" -> queueDelay(a)

\* attempt numbers: the claim has counted the attempt, so they start at 1
AttemptNumbers == 1 .. MaxAttemptNumber

\* the delays after two attempts are calculated with one rule
Calculate(fn, a1, a2) ==
  /\ calc' = [fn |-> fn, a1 |-> a1, a2 |-> a2,
              d1 |-> Delay(fn, a1), d2 |-> Delay(fn, a2)]
  /\ UNCHANGED <<messages, events, nextId, ingestVars, wa_attempts, breaker,
                 now, wk, rt, sends, restarts, bk, streak, env, snd>>

NextBackoff ==
  \E fn \in BackoffRules, a1 \in AttemptNumbers, a2 \in AttemptNumbers :
     Calculate(fn, a1, a2)

SpecBackoff == Init /\ [][NextBackoff]_vars

\* emitDLQEvent: INSERT INTO events ('dlq_message_failed', payload)
DlqEvent(messageId) == [type |-> "dlq_message_failed", message_id |-> messageId]

\* process.env.DLQ_ENABLED === 'true'
DlqEnabled == env.DLQ_ENABLED = "true"

\* recordWaAttempt (returns without writing), recordAttempt, then
\* updateMessageStatus(messageId, status, {...}), in the permanently_failed
\* branch emitDLQEvent when the flag is on, and the response; an error of
\* the statement lands in the handler's catch, which answers 500
RouteFinish(r) ==
  /\ rt[r].pc = "record"
  /\ breaker' = recordAttempt(breaker, Success(rt[r].resp), now)
  /\ LET n == RouteUpdateColumns(rt[r].resp)
         hit == RowsMatched(n, rt[r].id) \cap DOMAIN messages
     IN  IF StatementAccepted(n)
           THEN /\ \A id \in hit : LockedBy(id) = {}
                /\ messages' = [id \in DOMAIN messages |->
                      IF id \in hit
                        THEN [messages[id] EXCEPT !.status = RouteStatus(rt[r].resp),
                                                  !.attempt_count = rt[r].id]
                        ELSE messages[id]]
                /\ events' =
                      IF RouteStatus(rt[r].resp) = "permanently_failed" /\ DlqEnabled
                        THEN Append(events, DlqEvent(rt[r].id))
                        ELSE events
                /\ rt' = [rt EXCEPT ![r] =
                      [IdleHandler EXCEPT !.http = RouteAnswer(rt[r].resp),
                                          !.id = rt[r].id]]
           ELSE /\ UNCHANGED <<messages, events>>
                /\ rt' = [rt EXCEPT ![r] =
                      [IdleHandler EXCEPT !.http = 500, !.id = rt[r].id]]
  /\ UNCHANGED <<nextId, ingestVars, wa_attempts, now, wk, sends,
                 restarts, bk, streak, env, calc, snd>>

\* ------------------------------------------------------------ specification
Next ==
  \/ \E w \in Workers : WBegin(w)
  \/ \E w \in Workers : WPick(w)
  \/ \E w \in Workers : WCommit(w)
  \/ \E w \in Workers : WCallBridge(w)
  \/ \E w \in Workers, resp \in Responses : WBridgeReturn(w, resp)
  \/ \E w \in Workers : WMarkSent(w)
  \/ \E w \in Workers : WRestart(w)
  \/ \E r \in Handlers, to \in ToValues : RouteReceive(r, to)
  \/ \E r \in Handlers, resp \in Responses : RouteRequest(r, resp)
  \/ \E r \in Handlers : RouteFinish(r)
  \/ OpsCloseBreaker
  \/ OpsOpenBreaker
  \/ Tick

Spec == Init /\ [][Next]_vars

\* the send route and the workers, any of which may be killed; a worker that
\* is not killed keeps running: runForever polls again, and a bridge call
\* returns or times out
NextCrash ==
  \/ \E w \in Workers : WBegin(w)
  \/ \E w \in Workers : WPick(w)
  \/ \E w \in Workers : WCommit(w)
  \/ \E w \in Workers : WCallBridge(w)
  \/ \E w \in Workers, resp \in Responses : WBridgeReturn(w, resp)
  \/ \E w \in Workers : WMarkSent(w)
  \/ \E w \in Workers : WTerminate(w)
  \/ \E r \in Handlers, to \in ToValues : RouteReceive(r, to)
  \/ \E r \in Handlers, resp \in Responses : RouteRequest(r, resp)
  \/ \E r \in Handlers : RouteFinish(r)

\* two sends at different times, and the workers
NextPick ==
  \/ \E w \in Workers : WBegin(w)
  \/ \E w \in Workers : WPick(w)
  \/ \E w \in Workers : WCommit(w)
  \/ \E w \in Workers : WCallBridge(w)
  \/ \E w \in Workers, resp \in Responses : WBridgeReturn(w, resp)
  \/ \E w \in Workers : WMarkSent(w)
  \/ \E r \in Handlers, to \in ToValues : RouteReceiveUpTo(r, to, MaxQueued)
  \/ \E r \in Handlers, resp \in Responses : RouteRequest(r, resp)
  \/ \E r \in Handlers : RouteFinish(r)
  \/ Tick

SpecPick == Init /\ [][NextPick]_vars

PollingIsFair ==
  \A w \in Workers :
     /\ WF_vars(WBegin(w)) /\ WF_vars(WPick(w)) /\ WF_vars(WCommit(w))
     /\ WF_vars(WCallBridge(w)) /\ WF_vars(WMarkSent(w))
     /\ WF_vars(\E resp \in Responses : WBridgeReturn(w, resp))

SpecCrash == Init /\ [][NextCrash]_vars /\ PollingIsFair

\* ------------------------------------------------------------ claim helpers
\* worker w holds a claimed row and has not yet written its outcome
Processing(w) == wk[w].pc \in {"claimed", "calling", "ok"}

\* the claim statement of w has returned a row in its current iteration
ClaimReturned(w) ==
  wk[w].pc \in {"picked", "claimed", "calling", "ok", "stopped"} /\ wk[w].id # 0

\* C3: between the commit of a worker's claim and its write of the outcome no
\* other worker's claim returns the same row, so two workers never have a
\* bridge call in flight for one message.
C3_ClaimedRowInvisible ==
  \A a \in Workers, b \in Workers :
     (a # b /\ Processing(a)) =>
        ~(wk[b].id = wk[a].id /\ (wk[b].pc = "picked" \/ Processing(b)))

\* C4: of two claim transactions that are open at the same time on a table
\* with one eligible row, exactly one returns the row (so attempt_count rises
\* by 1, not 2).
C4_ClaimExclusivity ==
  \A a \in Workers, b \in Workers :
     (a # b /\ b \in wk[a].peers /\ a \in wk[b].peers
        /\ ClaimReturned(a) /\ ClaimReturned(b)) => wk[a].id # wk[b].id

Terminal(status) == status \in {"sent", "permanently_failed"}

\* a bridge request for message id goes out in this step
WorkerCalls(id) ==
  \E w \in Workers :
     wk[w].pc = "claimed" /\ wk[w].id = id /\ wk'[w].pc = "calling"

RouteCalls(id) ==
  \E r \in Handlers :
     rt[r].pc = "sending" /\ rt[r].id = id /\ rt'[r] # rt[r]

WorkerFails(w) == wk[w].pc = "calling" /\ wk'[w].pc \notin {"calling", "ok"}

Retryable(code) == code \in {408, 429} \/ code >= 500 \/ code = 0

Terminal4xx(code) == code >= 400 /\ code < 500 /\ code \notin {408, 429}

\* C6: the retryable failure of the attempt at which attempt_count reaches
\* max_attempts sets the message permanently_failed, and attempt_count never
\* exceeds max_attempts.
C6_ExhaustionIsPermanent ==
  [][\A w \in Workers :
       (WorkerFails(w) /\ Retryable(wk'[w].code)) =>
          /\ messages'[wk[w].id].attempt_count <= maxAttempts
          /\ (messages[wk[w].id].attempt_count >= maxAttempts =>
                messages'[wk[w].id].status = "permanently_failed")]_vars

\* C7: after a worker's bridge call fails with 408, 429, 5xx or a network
\* error the message is queued with next_attempt_at in the future.
C7_RetryableIsRequeued ==
  [][\A w \in Workers :
       (WorkerFails(w) /\ Retryable(wk'[w].code)) =>
          /\ messages'[wk[w].id].status = "queued"
          /\ messages'[wk[w].id].next_attempt_at > now]_vars

\* the send route handles the outcome of its immediate attempt in this step
RouteHandles(r) == rt[r].pc = "record" /\ rt'[r].pc = "idle"

\* C8: a bridge call that fails with a 4xx status other than 429, made by the
\* send route or by the retry worker, leaves the message permanently_failed.
C8_ClientErrorIsPermanent ==
  [][/\ \A w \in Workers :
          (WorkerFails(w) /\ Terminal4xx(wk'[w].code)) =>
             messages'[wk[w].id].status = "permanently_failed"
     /\ \A r \in Handlers :
          (RouteHandles(r) /\ Terminal4xx(rt[r].resp.status)) =>
             messages'[rt[r].id].status = "permanently_failed"]_vars

\* C9: while the breaker is open and the cooldown has not elapsed, a worker
\* holding a claimed row does not call the bridge and leaves the row queued.
C9_OpenBreakerPausesWorker ==
  [][\A w \in Workers :
       (wk[w].pc = "claimed" /\ ~isRequestAllowed(breaker, now)) =>
          wk'[w].pc # "calling"]_vars

\* C10: the outcome of every bridge call of the retry worker is reported to
\* the breaker (recordAttempt), so consecutive worker failures count towards
\* failure_threshold.
C10_WorkerReportsOutcome ==
  [][\A w \in Workers :
       (wk[w].pc = "calling" /\ wk'[w].pc # "calling") =>
          breaker' = recordAttempt(breaker, wk'[w].pc = "ok", now)]_vars

\* ------------------------------------------------- claims about the breaker
\* caller c's recordAttempt(success) writes its row and returns in this step,
\* having read state cur (closed or half_open) from getBreakerState
Recorded(c, success, cur) ==
  /\ Returned(c) /\ bk[c].op = "recordAttempt" /\ bk[c].pc = "write"
  /\ bk[c].success = success /\ bk[c].cur = cur

\* C11: with a single caller, starting from closed with failure_count 0, the
\* breaker opens exactly at the failThreshold-th consecutive
\* recordAttempt(false) and stays closed, counting the run, for any shorter
\* run; a recordAttempt(true) while closed resets failure_count to 0.
C11_OpensAtThreshold ==
  [][/\ Recorded(1, FALSE, "closed") =>
          IF streak' >= failThreshold
            THEN breaker'.state = "open" /\ breaker'.opened_at = now
            ELSE breaker'.state = "closed" /\ breaker'.failure_count = streak'
     /\ Recorded(1, TRUE, "closed") =>
          breaker'.state = "closed" /\ breaker'.failure_count = 0]_vars

\* the breaker has just been opened by the last of failThreshold failures
C11_Witness ==
  /\ bk[1].pc = "idle" /\ streak = failThreshold
  /\ breaker.state = "open" /\ breaker.failure_count = failThreshold

\* caller c's isRequestAllowed passes its SELECT in this step
Asked(c) ==
  bk[c].op = "isRequestAllowed" /\ bk[c].pc = "select" /\ bk'[c].pc # "select"

StoredOpen == breaker.present /\ breaker.state = "open"

\* C12: isRequestAllowed returns false when the stored state is open and
\* fewer than halfOpenAfter seconds have passed since opened_at, leaving the
\* row unchanged; at or after the cooldown it stores half_open with both
\* counters 0 and returns true; for closed and half_open it returns true.
C12_IsRequestAllowed ==
  [][\A c \in Callers :
       /\ (Asked(c) /\ StoredOpen /\ now - breaker.opened_at < halfOpenAfter) =>
             Returned(c) /\ bk'[c].ret = "false" /\ breaker' = breaker
       /\ (Asked(c) /\ StoredOpen /\ now - breaker.opened_at >= halfOpenAfter) =>
             bk'[c].pc = "promote"
       /\ (bk[c].op = "isRequestAllowed" /\ bk[c].pc = "promote"
             /\ bk'[c].pc # "promote") =>
             /\ Returned(c) /\ bk'[c].ret = "true"
             /\ breaker'.state = "half_open"
             /\ breaker'.failure_count = 0 /\ breaker'.success_count = 0
       /\ (Asked(c) /\ ~StoredOpen) =>
             Returned(c) /\ bk'[c].ret = "true" /\ breaker' = breaker]_vars

\* an isRequestAllowed call has found the cooldown elapsed exactly and has
\* returned true, leaving half_open behind
C12_Witness ==
  /\ breaker.state = "half_open" /\ breaker.success_count = 0
  /\ now >= halfOpenAfter
  /\ \E c \in Callers : bk[c].pc = "idle" /\ bk[c].ret = "true"
  /\ \A c \in Callers : bk[c].pc = "idle"

\* C13: with a single caller in half_open, each recordAttempt(true) raises
\* success_count by 1 and the state stays half_open until the
\* successThreshold-th consecutive success, which stores closed with both
\* counters 0.
C13_ClosesAtThreshold ==
  [][Recorded(1, TRUE, "half_open") =>
       /\ breaker.state = "half_open"
       /\ IF breaker.success_count + 1 = successThreshold
            THEN /\ breaker'.state = "closed"
                 /\ breaker'.failure_count = 0 /\ breaker'.success_count = 0
            ELSE /\ breaker'.state = "half_open"
                 /\ breaker'.success_count = breaker.success_count + 1
                 /\ breaker'.success_count < successThreshold]_vars

\* the breaker is half_open with all but one of the successes counted
C13_Witness ==
  /\ bk[1].pc = "idle"
  /\ breaker.state = "half_open"
  /\ breaker.success_count = successThreshold - 1

\* C14 as stated: a recordAttempt(false) while the breaker is half_open stores
\* open at once with failure_count and success_count both 0 and opened_at
\* the current time.
C14_HalfOpenFailureResets ==
  [][\A c \in Callers :
       Recorded(c, FALSE, "half_open") =>
          /\ breaker'.state = "open" /\ breaker'.opened_at = now
          /\ breaker'.failure_count = 0 /\ breaker'.success_count = 0]_vars

\* C14 amended: a recordAttempt(false) while the breaker is half_open stores
\* open at once with failure_count 1 (the failure that reopened it),
\* success_count 0 and opened_at the current time.
C14_HalfOpenFailureReopens ==
  [][\A c \in Callers :
       Recorded(c, FALSE, "half_open") =>
          /\ breaker'.state = "open" /\ breaker'.opened_at = now
          /\ breaker'.failure_count = 1 /\ breaker'.success_count = 0]_vars

\* the breaker was reopened from half_open after the first cooldown
C14_Witness ==
  /\ breaker.state = "open" /\ breaker.failure_count = 1
  /\ breaker.opened_at >= halfOpenAfter
  /\ \A c \in Callers : bk[c].pc = "idle"

\* ------------------------------------------------------ claims C15 to C20
\* dlq_message_failed events for message id in an events table
DlqCount(ev, id) ==
  Cardinality({i \in DOMAIN ev : ev[i] = DlqEvent(id)})

\* the permanent-failure branch of the worker (code >= 400 && code < 500) or
\* of the send route (1 >= maxAttempts) runs for message id in this step
PermanentBranch(id) ==
  \/ \E w \in Workers :
        /\ WorkerFails(w) /\ wk[w].id = id
        /\ wk'[w].code >= 400 /\ wk'[w].code < 500
  \/ \E r \in Handlers :
        /\ RouteHandles(r) /\ rt[r].id = id
        /\ ~Success(rt[r].resp) /\ 1 >= maxAttempts

\* C15: every transition of a message into permanently_failed, by the send
\* route or by the worker, happens whatever the dead-letter flag says, and
\* writes exactly one dlq_message_failed event when the flag is enabled and
\* none when it is disabled.
C15_DeadLetterGated ==
  [][\A id \in DOMAIN messages :
       /\ PermanentBranch(id) => messages'[id].status = "permanently_failed"
       /\ (messages[id].status # "permanently_failed"
             /\ messages'[id].status = "permanently_failed") =>
            /\ env.DLQ_ENABLED = "true" =>
                 DlqCount(events', id) = DlqCount(events, id) + 1
            /\ env.DLQ_ENABLED = "false" =>
                 DlqCount(events', id) = DlqCount(events, id)]_vars

\* processing of worker w's claimed message fails in this step (sendText
\* throws before or after the request)
ProcessingFails(w) ==
  wk[w].pc \in {"claimed", "calling"} /\ wk'[w].pc \notin {"claimed", "calling", "ok"}

\* C16: a failure while processing one message never stops the worker loop:
\* processOne returns and runForever goes on to its next poll, so the worker
\* is never left stopped.
C16_LoopSurvivesFailure ==
  [][\A w \in Workers :
       ProcessingFails(w) => wk'[w].pc = "idle"]_vars

\* the claim of message id commits in this step
ClaimCommits(id) ==
  \E w \in Workers :
     wk[w].pc = "picked" /\ wk[w].id = id /\ wk'[w].pc = "claimed"

\* C17: across send-route and worker steps a message's attempt_count never
\* decreases, and each claim raises it by exactly 1 over the value the
\* previous claim left.
C17_MonotonicAttempts ==
  [][\A id \in DOMAIN messages :
       /\ messages'[id].attempt_count >= messages[id].attempt_count
       /\ messages'[id].attempt_count =
            IF ClaimCommits(id) THEN messages[id].attempt_count + 1
            ELSE messages[id].attempt_count]_vars

\* a message claimed twice whose send route has also handled its own attempt
C17_Witness ==
  \E id \in DOMAIN messages :
     /\ messages[id].attempt_count = 2
     /\ \E r \in Handlers : rt[r].pc = "idle" /\ rt[r].id = id /\ rt[r].http # 0

\* next_attempt_at of message id after this step lies in the window the
\* schedule gives for attempt n: now + schedule[min(n-1, len-1)] + j with
\* 0 <= j <= jitterMs (the store clock counts whole seconds)
Rescheduled(id, n) ==
  /\ messages'[id].status = "queued"
  /\ messages'[id].next_attempt_at >= now + baseDelay(n)
  /\ messages'[id].next_attempt_at <= now + baseDelay(n) + (jitterMs + 999) \div 1000

\* C18: after a retryable failure of attempt number n with attempts left the
\* message is queued with next_attempt_at = now + schedule[min(n-1, len-1)]
\* + j, 0 <= j <= jitter_max; a first failure with HTTP 500 leaves
\* attempt_count 1 and next_attempt_at about 1 s ahead.
C18_BackoffSchedule ==
  [][/\ \A w \in Workers :
          (WorkerFails(w) /\ Retryable(wk'[w].code)
             /\ messages[wk[w].id].attempt_count < maxAttempts) =>
             Rescheduled(wk[w].id, messages[wk[w].id].attempt_count)
     /\ \A r \in Handlers :
          (RouteHandles(r) /\ ~Success(rt[r].resp)
             /\ Retryable(rt[r].resp.status) /\ 1 < maxAttempts) =>
             /\ Rescheduled(rt[r].id, 1)
             /\ messages'[rt[r].id].attempt_count = 1]_vars

\* 'ingest' audit events that name message id
IngestEvents(id) ==
  {i \in DOMAIN events : events[i] = [type |-> "ingest", message_id |-> id]}

\* C19: ingestMessage writes exactly one 'ingest' audit event for each newly
\* inserted message and none for a duplicate call (idempotent = true): every
\* stored inbound row has one event, every event belongs to a stored row, and
\* there are as many events as calls that returned idempotent = false.
C19_OneAuditEventPerInsert ==
  /\ \A id \in DOMAIN messages :
        messages[id].direction = "in" => Cardinality(IngestEvents(id)) = 1
  /\ \A i \in DOMAIN events :
        events[i].type = "ingest" => events[i].message_id \in DOMAIN messages
  /\ Len(events) = Cardinality({j \in OkReturns : ~returns[j].idempotent})

\* a new message and a duplicate of it have both been ingested
C19_Witness ==
  /\ Len(events) = 1
  /\ \E i \in OkReturns, j \in OkReturns :
        /\ ~returns[i].idempotent /\ returns[j].idempotent
        /\ returns[j].id = returns[i].id

\* the required field of message m that is missing or empty, if any
OffendingField(m) ==
  IF m.provider_id \in FieldDefects THEN "provider_id"
  ELSE IF m.msisdn \in FieldDefects THEN "msisdn"
  ELSE IF m.text \in FieldDefects THEN "text"
  ELSE "none"

\* C20: ingestMessage called with a missing or empty provider_id, msisdn or
\* text fails with a validation error naming that field and stores neither a
\* message row nor an audit event.
C20_RejectsDefectiveInput ==
  /\ \A i \in DOMAIN returns :
        OffendingField(returns[i].msg) # "none" =>
           /\ ~returns[i].ok
           /\ returns[i].error = "ValidationError: " \o OffendingField(returns[i].msg)
  /\ \A id \in DOMAIN messages :
        messages[id].direction = "in" =>
           /\ messages[id].provider_id \notin FieldDefects
           /\ messages[id].from_msisdn \notin FieldDefects
           /\ messages[id].body \notin FieldDefects

\* the numbers of MsisdnValues that are, or convert to, valid E.164
AcceptableNumbers ==
  { <<"+", "2", "7", "8", "2", "4", "5", "3", "7", "1", "2", "5">>,
    <<"2", "7", "8", "2", "4", "5", "3", "7", "1", "2", "5">> }

BlankTexts == { <<>>, <<" ", " ">> }

Absent(value) == value \in {Undefined, <<>>}

\* the request fails normalization
Defective(body) ==
  \/ Absent(body.msisdn) \/ Absent(body.text) \/ Absent(body.provider_id)
  \/ body.msisdn \notin AcceptableNumbers
  \/ body.text \in BlankTexts

DefectiveBodies == {b \in Bodies : Defective(b)}

\* the canonical names of the fields of the payload that are at fault
CanonicalNames(providerKey, body) ==
  {f \in {"msisdn"} : body.msisdn \notin AcceptableNumbers}
    \cup {f \in {"text"} : body.text \in BlankTexts \cup {Undefined}}
    \cup {f \in {"provider_id"} : Absent(body.provider_id)}

\* the same, a missing field being named as the provider's payload names it
PayloadNames(providerKey, body) ==
  {FieldName(providerKey)[f] :
      f \in {g \in {"msisdn", "text", "provider_id"} : Absent(body[g])}}
    \cup {f \in {"msisdn"} : /\ ~Absent(body.msisdn)
                             /\ body.msisdn \notin AcceptableNumbers}
    \cup {f \in {"text"} : ~Absent(body.text) /\ body.text \in BlankTexts}

\* ingestor p takes up a provider request in this step
TakesRequest(p) == ing[p].pc = "idle" /\ ing'[p] # ing[p]

\* this step is ingestor p handling request b of provider k (the response is
\* compared first, the whole step after it)
Handles(p, k, b) ==
  /\ ing'[p].reply = IF Normalized[k][b].message = "" THEN NoReply
                     ELSE ValidationReply(Normalized[k][b])
  /\ ProviderRequest(p, k, b)

\* ingestor p refuses the request naming field, and nothing is stored
Refused(p, fields) ==
  /\ ing'[p].pc = "idle"
  /\ ing'[p].reply.status = 400
  /\ ing'[p].reply.error = "validation_error"
  /\ ing'[p].reply.field \in fields
  /\ UNCHANGED <<messages, events, nextId, started, returns>>

C22_SendAnswersAndStores ==
  [][\A r \in Handlers :
        RouteHandles(r) =>
           /\ Success(rt[r].resp) =>
                 /\ rt'[r].http = 200
                 /\ messages'[rt[r].id].status = "sent"
                 /\ messages'[rt[r].id].attempt_count = 1
           /\ (~Success(rt[r].resp) /\ 1 < maxAttempts) =>
                 /\ rt'[r].http = 202
                 /\ messages'[rt[r].id].status = "queued"
                 /\ messages'[rt[r].id].attempt_count = 1]_vars

\* C23: with BREAKER_FAIL_THRESHOLD=0 the breaker is disabled: no sequence of
\* recordAttempt calls moves it from closed to open, so isRequestAllowed keeps
\* returning true.
C23_ThresholdZeroDisables ==
  failThreshold = 0 =>
     /\ breaker.present => breaker.state # "open"
     /\ \A c \in Callers : bk[c].ret # "false"

\* handler r turns a send away in this step because the breaker is open
SkippedByBreaker(r) ==
  /\ rt[r].pc = "idle" /\ rt'[r] # rt[r]
  /\ rt'[r].pc = "idle" /\ rt'[r].http = 503

\* C24: a send whose dispatch is skipped because the breaker is open is not
\* lost: the message exists as a row with status queued, for a later poll to
\* deliver once the breaker allows requests again.
C24_SkippedSendIsQueued ==
  [][\A r \in Handlers :
        SkippedByBreaker(r) =>
           \E id \in DOMAIN messages' \ DOMAIN messages :
              /\ messages'[id].direction = "out"
              /\ messages'[id].status = "queued"]_vars

\* C25: failure outcomes recorded concurrently while the breaker is closed
\* are all counted: once N recordAttempt(false) calls have completed with no
\* success in between, failure_count = N when N < failThreshold, and the
\* breaker is open otherwise; no update is lost.
C25_NoLostFailure ==
  IF breaker.present
    THEN breaker.state = "closed" =>
            streak < failThreshold /\ breaker.failure_count = streak
    ELSE streak = 0

\* the state the store holds for the breaker (no row reads as closed)
StoredState(b) == IF b.present THEN b.state ELSE "closed"

BreakerTransitions ==
  {<<"closed", "open">>, <<"open", "half_open">>, <<"half_open", "closed">>,
   <<"half_open", "open">>}

\* C26: under any interleaving of concurrent isRequestAllowed and
\* recordAttempt calls the stored breaker state changes only along
\* closed->open, open->half_open, half_open->closed and half_open->open; an
\* open breaker is never written back to closed without passing half_open.
C26_TransitionsFollowCycle ==
  [][StoredState(breaker') # StoredState(breaker) =>
        <<StoredState(breaker), StoredState(breaker')>> \in BreakerTransitions]_vars

\* caller 1 is inside a recordAttempt call
Recording == bk[1].op = "recordAttempt" /\ bk[1].pc # "idle"

\* C27 as stated: recordAttempt called while the stored breaker state is open
\* records nothing: the row is left unchanged, whatever the outcome reported.
C27_OpenRecordsNothing ==
  [][(Recording /\ StoredState(breaker) = "open") => breaker' = breaker]_vars

\* C27: recordAttempt called while the stored breaker state is open and the
\* cooldown has not elapsed records nothing: it returns after reading the
\* state, and state, failure_count, success_count and opened_at are left
\* unchanged, whatever the outcome reported.
C27_OpenInCooldownRecordsNothing ==
  [][(/\ Recording /\ bk'[1] # bk[1]
      /\ StoredState(breaker) = "open"
      /\ now - breaker.opened_at < halfOpenAfter) =>
        bk'[1].pc = "idle" /\ breaker' = breaker]_vars

\* a recordAttempt(false) is about to read an open breaker in its cooldown
C27_Witness ==
  /\ Recording /\ bk[1].pc = "select" /\ ~bk[1].success
  /\ StoredState(breaker) = "open"
  /\ now - breaker.opened_at < halfOpenAfter

\* after this step wa_attempts holds a row for message id with its
\* attempt_count as attempt_number
AttemptRecorded(id) ==
  \E i \in DOMAIN wa_attempts' :
     /\ wa_attempts'[i].message_id = id
     /\ wa_attempts'[i].attempt_number = messages'[id].attempt_count

\* worker w is done with the bridge call for its message in this step
WorkerHandles(w) ==
  wk[w].pc \in {"calling", "ok"} /\ wk'[w].pc \notin {"calling", "ok"}

\* C28: each bridge call made for a message, by the send route or by the
\* worker, appends one wa_attempts row for that message whose attempt_number
\* is the message's attempt_count at that time, and rows already written are
\* never modified or deleted.
C28_AttemptsAreRecorded ==
  [][/\ \A r \in Handlers : RouteHandles(r) => AttemptRecorded(rt[r].id)
     /\ \A w \in Workers : WorkerHandles(w) => AttemptRecorded(wk[w].id)
     /\ Len(wa_attempts') >= Len(wa_attempts)
     /\ SubSeq(wa_attempts', 1, Len(wa_attempts)) = wa_attempts]_vars

\* C29: when DLQ_ENABLED is not set in the environment the dead-letter flag
\* is on (default true); only an explicit false value turns emission off.
C29_DlqOnByDefault ==
  /\ env.DLQ_ENABLED = "unset" => DlqEnabled
  /\ ~DlqEnabled => env.DLQ_ENABLED = "false"

\* C30: sendMessage issues a further request after a failed one, while
\* attempts remain, exactly when the failure is retryable (status 408, 429,
\* any 5xx, or a network or timeout error, httpCode 0), and never after a
\* success or after any other 4xx status.
C30_RetriesExactlyRetryable ==
  [][\A r \in Handlers, resp \in Responses :
        (/\ rt[r].pc = "sending" /\ rt[r].attempt < maxAttempts
         /\ RouteRequest(r, resp)) =>
           (rt'[r].attempt = rt[r].attempt + 1
              <=> (~Success(resp) /\ Retryable(resp.status)))]_vars

\* the attempt from which rule fn has reached its last value, and that value
LastStep(fn) == IF fn = "send.js" THEN 4 ELSE 9

LargestDelay(fn) ==
  CASE fn = "send.js" -> 60000
    [] fn = "PICK_SQL" -> 300
    [] fn = "retryQueue.js" -> 300000
    [] OTHER -> 0

\* C31: for the default schedule of calculateNextAttempt and for the worker's
\* SQL backoff alike, the base delay after attempt a1 is <= the base delay
\* after attempt a2 whenever a1 < a2, and for attempts beyond the end of the
\* schedule (or beyond the cap) it stays at the last, largest value.
C31_BackoffMonotone ==
  calc.fn # "none" =>
     /\ calc.a1 < calc.a2 => calc.d1 <= calc.d2
     /\ calc.d1 <= LargestDelay(calc.fn)
     /\ calc.a1 >= LastStep(calc.fn) => calc.d1 = LargestDelay(calc.fn)
     /\ calc.a2 >= LastStep(calc.fn) => calc.d2 = LargestDelay(calc.fn)

\* the schedule has been read at its last entry and beyond its end
C31_Witness ==
  /\ calc.fn = "send.js" /\ calc.a1 = 4 /\ calc.a2 = MaxAttemptNumber
  /\ calc.d1 = 60000 /\ calc.d2 = 60000

\* worker w has been killed holding a claim of a row that is still queued,
\* claimed n times so far
KilledHolding(w, n) ==
  /\ wk[w].pc = "terminated"
  /\ messages[wk[w].id].status = "queued"
  /\ messages[wk[w].id].attempt_count = n

\* the row worker w held has been claimed more than n times, or delivered
ClaimedAgain(w, n) ==
  /\ wk[w].id \in DOMAIN messages
  /\ \/ messages[wk[w].id].attempt_count > n
     \/ messages[wk[w].id].status # "queued"

Running(w) == wk[w].pc \notin {"stopped", "terminated"}

Picks(w) == wk[w].pc = "begun" /\ wk'[w].pc = "picked"

\* row id can be claimed now: outbound, on channel wa, queued, due, with a
\* recipient, and not locked by another claim
Claimable(id) ==
  /\ messages[id].direction = "out" /\ messages[id].channel = "wa"
  /\ messages[id].status = "queued"
  /\ messages[id].next_attempt_at <= now
  /\ messages[id].to_present
  /\ \A v \in Workers : ~(wk[v].pc = "picked" /\ wk[v].id = id)

C34_RouteSendNotClaimed ==
  \A r \in Handlers, w \in Workers :
     rt[r].pc \in {"sending", "record"} =>
        ~(/\ wk[w].id = rt[r].id
          /\ wk[w].pc \in {"picked", "claimed", "calling", "ok"})

\* the call of ingestor p ends in this step by rethrowing an error
Rethrows(p) ==
  /\ Len(returns') = Len(returns) + 1
  /\ returns'[Len(returns')].proc = p
  /\ ~returns'[Len(returns')].ok

\* C35: in every committed state an inbound message row created by
\* ingestMessage exists if and only if its 'ingest' audit event exists; when
\* the event insert or any other step of the transaction throws, the error is
\* rethrown to the caller and neither a row nor an event is persisted.
C35_RowIffAuditEvent ==
  /\ [](\A id \in 1 .. (nextId - 1) :
           (id \in DOMAIN messages /\ messages[id].direction = "in")
              <=> IngestEvents(id) # {})
  /\ [][\A p \in Ingestors :
           Rethrows(p) => /\ messages' = messages
                          /\ events' = events
                          /\ returns'[Len(returns')].error # "none"]_vars

\* one transaction failed at its events INSERT after taking an id, and a
\* later one stored a row with its event
C35_Witness ==
  /\ \E i \in DOMAIN returns :
        ~returns[i].ok /\ returns[i].error = "store_error"
  /\ \E id \in DOMAIN messages : id > 1 /\ IngestEvents(id) # {}
  /\ 1 \notin DOMAIN messages

\* C36: every breaker_state value written by the breaker module has opened_at
\* non-null if and only if state = open, success_count > 0 only when state =
\* half_open, failure_count = 0 whenever state = half_open and, for a single
\* caller with failThreshold >= 1, failure_count < failThreshold whenever
\* state = closed.
C36_BreakerRowWellFormed ==
  breaker.present =>
     /\ (breaker.opened_at # NULL) <=> (breaker.state = "open")
     /\ breaker.success_count > 0 => breaker.state = "half_open"
     /\ breaker.state = "half_open" => breaker.failure_count = 0
     /\ (failThreshold >= 1 /\ breaker.state = "closed") =>
           breaker.failure_count < failThreshold

\* the breaker opened at the threshold, was promoted after the cooldown and
\* has counted a success in half_open
C36_Witness ==
  /\ breaker.present
  /\ breaker.state = "half_open"
  /\ breaker.success_count > 0
  /\ streak = 0
  /\ bk[1].pc = "idle"

\* what a rejected query of caller c's call leaves behind
SwallowsStoreError(c) ==
  /\ BkSelectThrows(c) =>
       /\ breaker' = breaker
       /\ (bk[c].op = "isRequestAllowed") =>
             (bk'[c].pc = "idle" /\ bk'[c].ret = "true")
       /\ (bk[c].op = "recordAttempt") =>
             (bk'[c].pc \in {"count", "write"} /\ bk'[c].cur = "closed")
  /\ (BkWriteThrows(c) \/ BkCountThrows(c)) =>
       (breaker' = breaker /\ Returned(c) /\ bk'[c].ret = "none")
  /\ BkPromoteThrows(c) =>
       /\ breaker' = breaker
       /\ (bk[c].op = "isRequestAllowed") => (bk'[c].ret = "true")

\* C37: the breaker fails open on store errors: when reading breaker_state
\* throws, getBreakerState reports closed and isRequestAllowed returns true;
\* an error while writing breaker_state inside recordAttempt or
\* updateBreakerState is swallowed: the call returns, the row is as it was
\* and no error reaches the caller.
C37_FailsOpenOnStoreError ==
  /\ [](\A c \in Callers : bk[c].ret # "threw")
  /\ [][SwallowsStoreError(1)]_vars

\* isRequestAllowed has answered true although the stored breaker is open and
\* still in its cooldown: the read was rejected
C37_Witness ==
  /\ bk[1].pc = "idle" /\ bk[1].ret = "true"
  /\ breaker.present /\ breaker.state = "open"
  /\ now - breaker.opened_at < halfOpenAfter

C39_StatusUpdateHitsItsRow ==
  [][\A r \in Handlers :
        RouteHandles(r) =>
           /\ ParamsPassed(RouteUpdateColumns(rt[r].resp)) =
                 PlaceholdersUsed(RouteUpdateColumns(rt[r].resp))
           /\ RowsMatched(RouteUpdateColumns(rt[r].resp), rt[r].id) = {rt[r].id}
           /\ messages'[rt[r].id].status = RouteStatus(rt[r].resp)
           /\ \A id \in DOMAIN messages \ {rt[r].id} :
                 messages'[id] = messages[id]]_vars

====
